---- MODULE Spec2Model ----
\* humblebundle-ebook-downloader (index.js): the download orchestration of one
\* run of main(): the order-detail pool of fetchOrders, the task list built by
\* downloadBundles, the download pool, downloadBook with its skip check,
\* transfer and failure handling, and the end-of-run report.
EXTENDS Integers, Sequences, FiniteSets, TLC

\* ---------------------------------------------------------------- bounds
NumOrders == 6
MaxTasks == 2
NumPaths == 2
MaxDownloadLimit == 2
MaxRuns == 2
NumBundles == 2
MaxStructs == 2

\* ------------------------------------------------------ program constants
OrderInfoMaxConcurrent == 5

None == "none"

\* File contents. A remote asset body is one of Bodies; Partial is a file that
\* createWriteStream has opened and truncated but whose stream has not
\* finished; ErrorBody is the body of a non-success response.
Bodies == {"A", "B"}
Partial == "partial"
ErrorBody == "errbody"

HashTypes == {"sha1", "md5"}

\* crypto.createHash(hashType) over the file content, hex digest
createHash(hashType, content) == <<hashType, content>>

\* a download_struct without the sha1 / md5 field
NoHash == <<>>

HashValues(hashType) == {NoHash} \cup {createHash(hashType, c) : c \in Bodies}

\* response.ok / response.status / response.statusText of fetch()
OkStatus == 200
NonOkStatuses == {404, 500}
statusText(status) ==
  CASE status = 200 -> "OK"
    [] status = 404 -> "Not Found"
    [] status = 500 -> "Internal Server Error"
    [] OTHER -> "undefined"

Orders == 1..NumOrders
PathIds == 1..NumPaths

VARIABLES
  mainPc,          \* position of main(): fetchOrders, downloadBundles, done, exited
  exitCode,        \* process exit code ("0", "1") once the process has ended, else None
  report,          \* what the end of main() printed
  orderState,      \* per order stub: queued, running, done, failed (orderInfoLimiter)
  downloadLimit,   \* options.downloadLimit
  downloads,       \* the downloads array of downloadBundles
  bookPc,          \* per task: position of its scheduled downloadBook call
  resp,            \* per task: status of the response fetch() returned, 0 before
  error,           \* per task: the error caught at line 452, None if none
  requests,        \* per task: number of fetch(download.url.web) calls issued
  downloadErrors,  \* the module-level downloadErrors array
  fs,              \* the destination files: path -> content or None
  fs0,             \* the destination files when the process started
  run,             \* which invocation of the program this is
  prev,            \* per task: <<bookPc, resp>> at the end of the previous run
  config,          \* what loadConfig read from the configuration file
  cli,             \* the command line: --format, --auth-token
  issued,          \* the API requests issued before the detail requests
  format,          \* options.format
  session,         \* main's session: what validateSession returned
  detailedOrders,  \* the order details async.concat collected in fetchOrders
  filteredOrders,  \* what fetchOrders returns
  bundles,         \* the bundles handed to downloadBundles
  downloadList,    \* the downloads array as downloadBundles builds it
  diagnostics,     \* the "No downloads found ... for bundle" messages printed
  filePaths        \* per entry of downloadList: the filePath of downloadBook

startVars == <<config, cli, issued, format, session>>
dataVars == <<detailedOrders, filteredOrders, bundles, downloadList,
              diagnostics, filePaths>>

vars == <<mainPc, exitCode, report, orderState, downloadLimit, downloads,
          bookPc, resp, error, requests, downloadErrors, fs, fs0, run, prev,
          startVars, dataVars>>

Tasks == 1..Len(downloads)

NoReport == [kind |-> None, items |-> <<>>]

\* ------------------------------------------------------------ task lists
\* One entry of downloads: the download_struct (url.web, sha1, md5), the
\* filePath downloadBook computes for it, and the body the remote serves.
Download(u, p, s, m, b) ==
  [url |-> u, filePath |-> p, sha1 |-> s, md5 |-> m, body |-> b]

\* Destination paths of a batch, up to renaming of the paths: the first task
\* has path 1 and a task has an earlier task's path or the next unused one.
BatchPaths ==
  { ps \in [1..MaxTasks -> PathIds] :
      \A i \in 1..MaxTasks :
        \/ ps[i] = 1
        \/ \E j \in 1..(i - 1) : ps[j] = ps[i] - 1 }

\* Task lists of a batch: every task advertises the sha1 of its body.
BatchDownloads ==
  {<<>>} \cup
  { [i \in 1..MaxTasks |->
       Download(i, ps[i], createHash("sha1", "A"), NoHash, "A")]
    : ps \in BatchPaths }

\* Task lists of a single downloadBook call: any advertised hashes.
BookDownloads ==
  { <<Download(1, 1, s, m, b)>> :
      s \in HashValues("sha1"), m \in HashValues("md5"), b \in Bodies }

FileStates == {None} \cup Bodies

\* ------------------------------------------------------------------ Init
\* a run past its start-up and outside the resolution of the task list:
\* the configuration and the command line were accepted, the session was
\* validated and the catalog listing fetched
InitStarted ==
  /\ config = [exists |-> TRUE, format |-> "epub", session |-> "sess",
               expirationDate |-> "future", authToken |-> None]
  /\ cli = [format |-> None, authToken |-> None]
  /\ issued = {"validateSession", "listing"}
  /\ session = "sess"
  /\ format = "epub"
  /\ detailedOrders = <<>>
  /\ filteredOrders = <<>>
  /\ bundles = <<>>
  /\ downloadList = <<>>
  /\ diagnostics = <<>>
  /\ filePaths = <<>>

InitRun ==
  /\ InitStarted
  /\ exitCode = None
  /\ report = NoReport
  /\ downloadErrors = <<>>
  /\ fs0 = fs
  /\ run = 1

\* main() up to the call of fetchOrders: the order stubs are queued on
\* orderInfoLimiter, nothing is resolved yet.
Init ==
  /\ mainPc = "fetchOrders"
  /\ orderState = [k \in Orders |-> "queued"]
  /\ downloadLimit \in 1..MaxDownloadLimit
  /\ downloads = <<>>
  /\ bookPc = <<>>
  /\ resp = <<>>
  /\ error = <<>>
  /\ requests = <<>>
  /\ prev = <<>>
  /\ fs \in [PathIds -> FileStates]
  /\ InitRun

\* --------------------------------------------------------------- start-up
SUPPORTED_FORMATS ==
  <<"epub", "mobi", "pdf", "pdf_hd", "prc", "cbz", "zip", "txt", "csv", "iso">>

\* list.includes(x), list.indexOf(x) !== -1
includes(list, x) == \E i \in DOMAIN list : list[i] = x

\* SUPPORTED_FORMATS.concat(["all"]).sort(): only searched with indexOf
ALLOWED_FORMATS == SUPPORTED_FORMATS \o <<"all">>

\* the configuration file: missing, or a JSON object whose fields may be missing
Configs ==
  [exists : BOOLEAN, format : {None, "epub", "bogus"},
   session : {None, "", "sess"}, expirationDate : {None, "past", "future"},
   authToken : {None, "token"}]

\* the command line
Clis ==
  [format : {None, "pdf", "bogus"},
   authToken : {None, "", "token", "\"token\""}]

\* the mutant of formatAllowed: the format is not checked
formatAllowed_unchecked(f) == TRUE

\* ALLOWED_FORMATS.indexOf(f) !== -1
formatAllowed(f) == includes(ALLOWED_FORMATS, f)

\* the process has ended in the catch of main: "An error occurred, exiting."
\* and process.exit(1)
Fatal ==
  /\ mainPc' = "exited"
  /\ exitCode' = "1"

\* "Invalid format ..." is printed and commander.help() prints the usage and
\* ends the process; its exit code is process.exitCode, which nothing set
Help ==
  /\ mainPc' = "help"
  /\ exitCode' = "0"

\* main(): loadConfig and the first format check. With no configuration
\* file configPath is null, fs.access(null) fails with an error that is not
\* ENOENT and loadConfig rethrows. commander has not parsed yet, so
\* commander.format ?? options.format is the format of the file.
LoadConfig ==
  /\ mainPc = "loadConfig"
  /\ IF ~config.exists
       THEN Fatal
       ELSE IF ~formatAllowed(config.format)
              THEN Help
              ELSE mainPc' = "parse" /\ exitCode' = exitCode
  /\ UNCHANGED <<report, orderState, downloadLimit, downloads, bookPc, resp,
                 error, requests, downloadErrors, fs, fs0, run, prev>>
  /\ UNCHANGED <<startVars, dataVars>>

\* commander.opts().format: --format, by default config.format ?? "epub"
optsFormat ==
  IF cli.format # None THEN cli.format
  ELSE IF config.format # None THEN config.format
  ELSE "epub"

\* main(): commander parses the command line, options is merged and the
\* format is checked again
ParseArgs ==
  /\ mainPc = "parse"
  /\ format' = optsFormat
  /\ IF ~formatAllowed(optsFormat)
       THEN Help
       ELSE mainPc' = "validateSession" /\ exitCode' = exitCode
  /\ UNCHANGED <<report, orderState, downloadLimit, downloads, bookPc, resp,
                 error, requests, downloadErrors, fs, fs0, run, prev>>
  /\ UNCHANGED <<config, cli, issued, session, dataVars>>

\* a value JavaScript takes for true in a condition
truthy(x) == x \notin {None, ""}

\* options.authToken after options = {...options, ...config,
\* ...commander.opts()}: --auth-token when given; otherwise the authToken of
\* the configuration file, unless opts() carries the key without a value
optionsAuthToken ==
  IF cli.authToken # None THEN {cli.authToken} ELSE {None, config.authToken}

\* commander.authToken: --auth-token when commander keeps the options as
\* its properties, undefined otherwise
commanderAuthToken ==
  IF cli.authToken # None THEN {cli.authToken, None} ELSE {None}

\* util.format('"%s"', token.replace(/^"|"$/g, ""))
quoted(token) ==
  CASE token \in {"token", "\"token\""} -> "\"token\""
    [] OTHER -> "\"\""

\* the config holds no session or no expirationDate
noStoredSession ==
  \/ ~truthy(config.session)
  \/ ~truthy(config.expirationDate)

\* what a call of validateSession comes to
Thrown(req) == [thrown |-> TRUE, session |-> None, requested |-> req]
Returned(s) == [thrown |-> FALSE, session |-> s, requested |-> TRUE]

\* the request of validateSession and what follows it: the session is
\* returned on status 200 with data, anything else throws
sessionRequest(s, status, data) ==
  IF ~data THEN Thrown(TRUE)
  ELSE IF status = OkStatus THEN Returned(s)
  ELSE Thrown(TRUE)

\* the mutant of validateSession: without a usable session the session of
\* the config is returned as it is
validateSession_returnsStored(token, property, status, data) ==
  IF ~truthy(token)
    THEN IF noStoredSession \/ config.expirationDate = "past"
           THEN [thrown |-> FALSE, session |-> config.session,
                 requested |-> FALSE]
           ELSE sessionRequest(config.session, status, data)
    ELSE IF property = None
           THEN Thrown(FALSE)
           ELSE sessionRequest(quoted(property), status, data)

\* validateSession(config) for options.authToken = token and
\* commander.authToken = property (None: undefined, .replace throws)
validateSession(token, property, status, data) ==
  IF ~truthy(token)
    THEN IF noStoredSession
           THEN Thrown(FALSE)
           ELSE IF config.expirationDate = "past"
                  THEN Thrown(FALSE)
                  ELSE sessionRequest(config.session, status, data)
    ELSE IF property = None
           THEN Thrown(FALSE)
           ELSE sessionRequest(quoted(property), status, data)

\* main: let session = await validateSession(config); if (!session)
\* session = await authenticate(saveConfig), which opens the browser login
ValidateSession ==
  /\ mainPc = "validateSession"
  /\ \E token \in optionsAuthToken, property \in commanderAuthToken,
        status \in {OkStatus, 401, 500}, data \in BOOLEAN :
       LET r == validateSession(token, property, status, data)
       IN /\ issued' = IF r.requested
                         THEN issued \cup {"validateSession"}
                         ELSE issued
          /\ IF r.thrown
               THEN Fatal /\ session' = session
               ELSE /\ session' = r.session
                    /\ exitCode' = exitCode
                    /\ mainPc' = IF ~truthy(r.session)
                                   THEN "authenticate"
                                   ELSE "listing"
  /\ UNCHANGED <<report, orderState, downloadLimit, downloads, bookPc, resp,
                 error, requests, downloadErrors, fs, fs0, run, prev>>
  /\ UNCHANGED <<config, cli, format, dataVars>>

\* fetchOrders: the catalog listing; a non-success response throws
FetchListing ==
  /\ mainPc = "listing"
  /\ issued' = issued \cup {"listing"}
  /\ \E ok \in BOOLEAN :
       IF ok
         THEN mainPc' = "fetchOrders" /\ exitCode' = exitCode
         ELSE Fatal
  /\ UNCHANGED <<report, orderState, downloadLimit, downloads, bookPc, resp,
                 error, requests, downloadErrors, fs, fs0, run, prev>>
  /\ UNCHANGED <<config, cli, format, session, dataVars>>

\* the process is started: nothing is read yet
InitStart ==
  /\ mainPc = "loadConfig"
  /\ config \in Configs
  /\ cli \in Clis
  /\ issued = {}
  /\ format = None
  /\ session = None
  /\ detailedOrders = <<>>
  /\ filteredOrders = <<>>
  /\ bundles = <<>>
  /\ downloadList = <<>>
  /\ diagnostics = <<>>
  /\ filePaths = <<>>
  /\ exitCode = None
  /\ report = NoReport
  /\ orderState = [k \in Orders |-> "queued"]
  /\ downloadLimit \in 1..MaxDownloadLimit
  /\ downloads = <<>>
  /\ bookPc = <<>>
  /\ resp = <<>>
  /\ error = <<>>
  /\ requests = <<>>
  /\ prev = <<>>
  /\ downloadErrors = <<>>
  /\ fs \in [PathIds -> FileStates]
  /\ fs0 = fs
  /\ run = 1

NextStart ==
  \/ LoadConfig
  \/ ParseArgs
  \/ ValidateSession
  \/ FetchListing

SpecStart == InitStart /\ [][NextStart]_vars

\* ------------------------------------------- order data and its resolution
\* raw format labels (download_struct[].name)
Labels == {".CBZ", "pdf (hq)", "PDF (HD)", "Download", "EPUB", "PDF", "MP3"}

\* String.prototype.toLowerCase on the labels and format tokens of the model
toLowerCase(str) ==
  CASE str = ".CBZ" -> ".cbz"
    [] str = "PDF (HD)" -> "pdf (hd)"
    [] str = "Download" -> "download"
    [] str = "EPUB" -> "epub"
    [] str = "PDF" -> "pdf"
    [] str = "MP3" -> "mp3"
    [] OTHER -> str

\* the mutant of normalizeFormat: the switch is on the raw label
normalizeFormat_caseSensitive(label) ==
  CASE label = ".cbz" -> "cbz"
    [] label \in {"pdf (hq)", "pdf (hd)"} -> "pdf_hd"
    [] label = "download" -> "pdf"
    [] OTHER -> toLowerCase(label)

normalizeFormat(label) ==
  CASE toLowerCase(label) = ".cbz" -> "cbz"
    [] toLowerCase(label) \in {"pdf (hq)", "pdf (hd)"} -> "pdf_hd"
    [] toLowerCase(label) = "download" -> "pdf"
    [] OTHER -> toLowerCase(label)

\* util.format(".%s", format) is the pair of its pieces
getExtension(fmt) ==
  CASE toLowerCase(fmt) = "pdf_hd" -> <<" (hd).pdf">>
    [] OTHER -> <<".", fmt>>

\* one download_struct entry; name or url may be missing
Variant(n, u) == [name |-> n, url |-> u]
Variants ==
  {Variant(l, "url") : l \in Labels} \cup
  {Variant(None, "url"), Variant("EPUB", None)}

StructLists == [1..MaxStructs -> Variants]

DownloadOption(p, structs) == [platform |-> p, download_struct |-> structs]
Subproduct(n, ds) == [human_name |-> n, downloads |-> ds]
Order(n, sps) == [product |-> [human_name |-> n], subproducts |-> sps]

\* the orders of a catalog over one free download_struct list: without
\* subproducts, with it under a non-ebook platform, with it under the ebook
\* platform, with an ebook subproduct in epub and pdf, and with an ebook
\* download without variants next to a non-ebook one
OrderShapes(n, structs) ==
  { Order(n, <<>>),
    Order(n, <<Subproduct("Book", <<DownloadOption("audio", structs)>>)>>),
    Order(n, <<Subproduct("Book", <<DownloadOption("ebook", structs)>>)>>),
    Order(n, <<Subproduct("Book",
                 <<DownloadOption("ebook",
                     <<Variant("EPUB", "url"), Variant("PDF", "url")>>)>>)>>),
    Order(n, <<Subproduct("Album", <<DownloadOption("audio", structs)>>),
               Subproduct("Book", <<DownloadOption("ebook", <<>>)>>)>>) }

Catalogs ==
  UNION { {os \in [1..NumBundles -> UNION {OrderShapes(n, structs) : n \in 1..NumBundles}] :
             \A n \in 1..NumBundles : os[n] \in OrderShapes(n, structs)}
          : structs \in StructLists }

\* flatten(list): the concatenation of a list of lists
RECURSIVE flatten(_)
flatten(list) ==
  IF list = <<>> THEN <<>> ELSE Head(list) \o flatten(Tail(list))

\* list.map(f) for a list of records and one of their fields
platformsOf(ds) == [i \in DOMAIN ds |-> ds[i].platform]

\* the mutant of hasEbook: an ebook download counts only with a variant
hasEbook_withVariant(order) ==
  \E i \in DOMAIN order.subproducts :
    \E j \in DOMAIN order.subproducts[i].downloads :
      /\ order.subproducts[i].downloads[j].platform = "ebook"
      /\ order.subproducts[i].downloads[j].download_struct # <<>>

\* the filter callback of fetchOrders
hasEbook(order) ==
  includes(
    flatten([i \in DOMAIN order.subproducts |->
               platformsOf(order.subproducts[i].downloads)]),
    "ebook")

\* fetchOrders: detailedOrders.filter(...)
FilterOrders ==
  /\ mainPc = "filterOrders"
  /\ filteredOrders' = SelectSeq(detailedOrders, hasEbook)
  /\ mainPc' = "displayOrders"
  /\ UNCHANGED <<exitCode, report, orderState, downloadLimit, downloads,
                 bookPc, resp, error, requests, downloadErrors, fs, fs0, run,
                 prev>>
  /\ UNCHANGED <<startVars, detailedOrders, bundles, downloadList,
                 diagnostics, filePaths>>

\* displayOrders / --all: the user keeps every order or none
SelectBundles ==
  /\ mainPc = "displayOrders"
  /\ bundles' \in {filteredOrders, <<>>}
  /\ mainPc' = "buildDownloads"
  /\ UNCHANGED <<exitCode, report, orderState, downloadLimit, downloads,
                 bookPc, resp, error, requests, downloadErrors, fs, fs0, run,
                 prev>>
  /\ UNCHANGED <<startVars, detailedOrders, filteredOrders, downloadList,
                 diagnostics, filePaths>>

\* the mutant of hasNameAndUrl: only the label is checked
hasNameAndUrl_nameOnly(download) == download.name # None

\* !(!download?.name || !download?.url)
hasNameAndUrl(download) == download.name # None /\ download.url # None

\* options.format === "all" || normalizedFormat === options.format
matchesFormat(download) ==
  format = "all" \/ normalizeFormat(download.name) = format

\* per subproduct: the download_struct entries of its ebook downloads that
\* have a name and a url, as entries of bundleDownloads
structsOf(bundle, subproduct) ==
  LET filteredDownloads ==
        SelectSeq(subproduct.downloads, LAMBDA d : d.platform = "ebook")
      downloadStructs ==
        flatten([i \in DOMAIN filteredDownloads |->
                   filteredDownloads[i].download_struct])
      named == SelectSeq(downloadStructs, hasNameAndUrl)
  IN [i \in DOMAIN named |->
        [bundle |-> bundle.product.human_name, download |-> named[i],
         name |-> subproduct.human_name]]

\* every named ebook variant of a bundle, in the order the filter visits them
visited(bundle) ==
  flatten([i \in DOMAIN bundle.subproducts |->
             structsOf(bundle, bundle.subproducts[i])])

\* bundleDownloads of one bundle
bundleDownloadsOf(bundle) ==
  SelectSeq(visited(bundle), LAMBDA e : matchesFormat(e.download))

\* the mutant of pushFormat: formats that are not supported are pushed too
pushFormat_unsupported(bundleFormats, normalizedFormat) ==
  IF ~includes(bundleFormats, normalizedFormat)
    THEN Append(bundleFormats, normalizedFormat)
    ELSE bundleFormats

\* if (!bundleFormats.includes(f) && SUPPORTED_FORMATS.includes(f)) push(f)
pushFormat(bundleFormats, normalizedFormat) ==
  IF /\ ~includes(bundleFormats, normalizedFormat)
     /\ includes(SUPPORTED_FORMATS, normalizedFormat)
    THEN Append(bundleFormats, normalizedFormat)
    ELSE bundleFormats

\* bundleFormats after the entries were visited
RECURSIVE collectFormats(_, _)
collectFormats(entries, bundleFormats) ==
  IF entries = <<>>
    THEN bundleFormats
    ELSE collectFormats(Tail(entries),
           pushFormat(bundleFormats, normalizeFormat(Head(entries).download.name)))

\* the format tokens in the order of Array.prototype.sort (UTF-16 code units)
SortOrder ==
  <<"cbz", "csv", "epub", "iso", "mobi", "mp3", "pdf", "pdf_hd", "prc", "txt", "zip">>
rank(f) == CHOOSE i \in DOMAIN SortOrder : SortOrder[i] = f

RECURSIVE insertSorted(_, _)
insertSorted(list, f) ==
  IF list = <<>> THEN <<f>>
  ELSE IF rank(f) < rank(Head(list)) THEN <<f>> \o list
  ELSE <<Head(list)>> \o insertSorted(Tail(list), f)

\* list.sort()
RECURSIVE sort(_)
sort(list) ==
  IF list = <<>> THEN <<>> ELSE insertSorted(sort(Tail(list)), Head(list))

\* the message printed for a bundle without a matching download
diagnosticOf(bundle) ==
  [format |-> format, bundle |-> bundle.product.human_name,
   formats |-> sort(collectFormats(visited(bundle), <<>>))]

\* downloadBundles up to the limiter: the loop over the bundles
BuildDownloads ==
  /\ mainPc = "buildDownloads"
  /\ downloadList' =
       flatten([i \in DOMAIN bundles |-> bundleDownloadsOf(bundles[i])])
  /\ diagnostics' =
       flatten([i \in DOMAIN bundles |->
                  IF bundleDownloadsOf(bundles[i]) = <<>>
                    THEN <<diagnosticOf(bundles[i])>>
                    ELSE <<>>])
  /\ mainPc' = IF downloadList' = <<>> THEN "resolved" ELSE "filePaths"
  /\ UNCHANGED <<exitCode, report, orderState, downloadLimit, downloads,
                 bookPc, resp, error, requests, downloadErrors, fs, fs0, run,
                 prev>>
  /\ UNCHANGED <<startVars, detailedOrders, filteredOrders, bundles,
                 filePaths>>

\* downloadBook: the folder and the file name of a task (the names of the
\* model hold nothing sanitizeFilename or trim would change)
filePathOf(entry) ==
  [folder |-> entry.bundle, name |-> entry.name,
   extension |-> getExtension(normalizeFormat(entry.download.name))]

\* downloadBook is called for every entry of downloads
FilePaths ==
  /\ mainPc = "filePaths"
  /\ filePaths' = [i \in DOMAIN downloadList |-> filePathOf(downloadList[i])]
  /\ mainPc' = "resolved"
  /\ UNCHANGED <<exitCode, report, orderState, downloadLimit, downloads,
                 bookPc, resp, error, requests, downloadErrors, fs, fs0, run,
                 prev>>
  /\ UNCHANGED <<startVars, detailedOrders, filteredOrders, bundles,
                 downloadList, diagnostics>>

\* the order details are fetched, the format is any of three
InitResolve ==
  /\ mainPc = "filterOrders"
  /\ config = [exists |-> TRUE, format |-> "epub", session |-> "sess",
               expirationDate |-> "future", authToken |-> None]
  /\ cli = [format |-> None, authToken |-> None]
  /\ issued = {"validateSession", "listing"}
  /\ session = "sess"
  /\ format \in {"all", "epub", "pdf"}
  /\ detailedOrders \in Catalogs
  /\ filteredOrders = <<>>
  /\ bundles = <<>>
  /\ downloadList = <<>>
  /\ diagnostics = <<>>
  /\ filePaths = <<>>
  /\ exitCode = None
  /\ report = NoReport
  /\ orderState = [k \in Orders |-> "done"]
  /\ downloadLimit = 1
  /\ downloads = <<>>
  /\ bookPc = <<>>
  /\ resp = <<>>
  /\ error = <<>>
  /\ requests = <<>>
  /\ prev = <<>>
  /\ downloadErrors = <<>>
  /\ fs = [p \in PathIds |-> None]
  /\ fs0 = fs
  /\ run = 1

NextResolve ==
  \/ FilterOrders
  \/ SelectBundles
  \/ BuildDownloads
  \/ FilePaths

SpecResolve == InitResolve /\ [][NextResolve]_vars

\* ------------------------------------------------- fetchOrders (detail pool)
RunningOrders == {k \in Orders : orderState[k] = "running"}

\* orderInfoLimiter.schedule admits a queued detail request
OrderSchedule(k) ==
  /\ mainPc = "fetchOrders"
  /\ orderState[k] = "queued"
  /\ Cardinality(RunningOrders) < OrderInfoMaxConcurrent
  /\ orderState' = [orderState EXCEPT ![k] = "running"]
  /\ UNCHANGED <<mainPc, exitCode, report, downloadLimit, downloads, bookPc,
                 resp, error, requests, downloadErrors, fs, fs0, run, prev>>
  /\ UNCHANGED <<startVars, dataVars>>

\* orderResponse.ok: the order details are returned
OrderResponseOk(k) ==
  /\ mainPc = "fetchOrders"
  /\ orderState[k] = "running"
  /\ orderState' = [orderState EXCEPT ![k] = "done"]
  /\ UNCHANGED <<mainPc, exitCode, report, downloadLimit, downloads, bookPc,
                 resp, error, requests, downloadErrors, fs, fs0, run, prev>>
  /\ UNCHANGED <<startVars, dataVars>>

\* the mutant of orderThrow: the error is swallowed and the run goes on
orderThrow_swallowed == "fetchOrders"

\* Where main() is after a detail request threw: async.concat rejects on the
\* first error, fetchOrders rethrows, the catch of main calls process.exit(1).
orderThrow == "exited"

\* !orderResponse.ok: throw new Error(...)
OrderResponseNotOk(k) ==
  /\ mainPc = "fetchOrders"
  /\ orderState[k] = "running"
  /\ orderState' = [orderState EXCEPT ![k] = "failed"]
  /\ mainPc' = orderThrow
  /\ exitCode' = IF orderThrow = "exited" THEN "1" ELSE exitCode
  /\ UNCHANGED <<report, downloadLimit, downloads, bookPc,
                 resp, error, requests, downloadErrors, fs, fs0, run, prev>>
  /\ UNCHANGED <<startVars, dataVars>>

\* ------------------------------------------------------- downloadBundles
\* fetchOrders returns once every detail request has settled; the bundles are
\* selected and downloadBundles builds the downloads array. With no download
\* it returns at once, otherwise every task is submitted to the limiter.
DownloadBundles ==
  /\ mainPc = "fetchOrders"
  /\ \A k \in Orders : orderState[k] \in {"done", "failed"}
  /\ \E ds \in BatchDownloads :
       /\ downloads' = ds
       /\ bookPc' = [t \in 1..Len(ds) |-> "queued"]
       /\ resp' = [t \in 1..Len(ds) |-> 0]
       /\ error' = [t \in 1..Len(ds) |-> None]
       /\ requests' = [t \in 1..Len(ds) |-> 0]
       /\ prev' = [t \in 1..Len(ds) |-> <<None, 0>>]
  /\ mainPc' = "downloadBundles"
  /\ UNCHANGED <<exitCode, report, orderState, downloadLimit, downloadErrors,
                 fs, fs0, run>>
  /\ UNCHANGED <<startVars, dataVars>>

InFlight == {"started", "fetching", "unlinking", "writing"}
RunningBooks == {t \in Tasks : bookPc[t] \in InFlight}

\* the mutant of limiterMaxConcurrent: one more than the configured limit
limiterMaxConcurrent_plusOne == downloadLimit + 1

\* new Bottleneck({ maxConcurrent: options.downloadLimit })
limiterMaxConcurrent == downloadLimit

\* limiter.schedule admits a queued task: downloadBook is called
Schedule(t) ==
  /\ mainPc = "downloadBundles"
  /\ bookPc[t] = "queued"
  /\ Cardinality(RunningBooks) < limiterMaxConcurrent
  /\ bookPc' = [bookPc EXCEPT ![t] = "started"]
  /\ UNCHANGED <<mainPc, exitCode, report, orderState, downloadLimit,
                 downloads, resp, error, requests, downloadErrors, fs, fs0,
                 run, prev>>
  /\ UNCHANGED <<startVars, dataVars>>

\* ---------------------------------------------------------- downloadBook
\* the mutant of checkSignatureMatch: md5 is preferred to sha1
checkSignatureMatch_md5First(content, download) ==
  IF content = None
    THEN FALSE
    ELSE LET hashType == IF download.md5 # NoHash THEN "md5" ELSE "sha1"
             hashToVerify == download[hashType]
         IN createHash(hashType, content) = hashToVerify

checkSignatureMatch(content, download) ==
  IF content = None
    THEN FALSE
    ELSE LET hashType == IF download.sha1 # NoHash THEN "sha1" ELSE "md5"
             hashToVerify == download[hashType]
         IN createHash(hashType, content) = hashToVerify

\* const matches = await checkSignatureMatch(...); if (matches) return true;
\* otherwise fetch(download.url.web) is issued
SkipCheck(t) ==
  /\ mainPc = "downloadBundles"
  /\ bookPc[t] = "started"
  /\ IF checkSignatureMatch(fs[downloads[t].filePath], downloads[t])
       THEN /\ bookPc' = [bookPc EXCEPT ![t] = "skipped"]
            /\ UNCHANGED requests
       ELSE /\ bookPc' = [bookPc EXCEPT ![t] = "fetching"]
            /\ requests' = [requests EXCEPT ![t] = @ + 1]
  /\ UNCHANGED <<mainPc, exitCode, report, orderState, downloadLimit,
                 downloads, resp, error, downloadErrors, fs, fs0, run, prev>>
  /\ UNCHANGED <<startVars, dataVars>>

\* the record handleFileDownloadError pushes
DownloadError(download, status) ==
  [webUrl |-> download.url, filePath |-> download.filePath,
   status |-> status, statusText |-> statusText(status)]

\* the mutant of catchDownloadErrors: response is in scope in the catch block
\* and handleFileDownloadError pushes a second record
catchDownloadErrors_pushes(t) ==
  Append(downloadErrors, DownloadError(downloads[t], resp[t]))

\* downloadErrors after the catch block of downloadBook (line 453): response
\* is declared by const inside the try block and is not in scope in the catch
\* block, so evaluating the argument throws a ReferenceError and
\* handleFileDownloadError is not called.
catchDownloadErrors(t) == downloadErrors

\* the mutant of Catch: the failed transfer is started again
Catch_retries(t, e) ==
  /\ bookPc' = [bookPc EXCEPT ![t] = "started"]
  /\ error' = [error EXCEPT ![t] = e]
  /\ downloadErrors' = downloadErrors
  /\ mainPc' = mainPc
  /\ exitCode' = exitCode

\* The catch block of downloadBook and what follows from it: downloadBook
\* rejects, limiter.schedule rejects, async.each rejects on the first error,
\* downloadBundles rejects, the catch of main calls process.exit(1).
Catch(t, e) ==
  /\ bookPc' = [bookPc EXCEPT ![t] = "rejected"]
  /\ error' = [error EXCEPT ![t] = e]
  /\ downloadErrors' = catchDownloadErrors(t)
  /\ mainPc' = "exited"
  /\ exitCode' = "1"

\* fetch resolves with response.ok: downloadFile opens the write stream
ResponseOk(t) ==
  /\ mainPc = "downloadBundles"
  /\ bookPc[t] = "fetching"
  /\ resp' = [resp EXCEPT ![t] = OkStatus]
  /\ fs' = [fs EXCEPT ![downloads[t].filePath] = Partial]
  /\ bookPc' = [bookPc EXCEPT ![t] = "writing"]
  /\ UNCHANGED <<mainPc, exitCode, report, orderState, downloadLimit,
                 downloads, error, requests, downloadErrors, fs0, run, prev>>
  /\ UNCHANGED <<startVars, dataVars>>

\* fetch resolves with !response.ok: handleFileDownloadError pushes the error
\* and awaits fs.unlink
ResponseNotOk(t, status) ==
  /\ mainPc = "downloadBundles"
  /\ bookPc[t] = "fetching"
  /\ resp' = [resp EXCEPT ![t] = status]
  /\ downloadErrors' = Append(downloadErrors, DownloadError(downloads[t], status))
  /\ bookPc' = [bookPc EXCEPT ![t] = "unlinking"]
  /\ UNCHANGED <<mainPc, exitCode, report, orderState, downloadLimit,
                 downloads, error, requests, fs, fs0, run, prev>>
  /\ UNCHANGED <<startVars, dataVars>>

\* fetch rejects (network error)
FetchRejected(t) ==
  /\ mainPc = "downloadBundles"
  /\ bookPc[t] = "fetching"
  /\ Catch(t, "fetch")
  /\ UNCHANGED <<report, orderState, downloadLimit, downloads, resp, requests,
                 fs, fs0, run, prev>>
  /\ UNCHANGED <<startVars, dataVars>>

\* fs.unlink of an existing file succeeds; handleFileDownloadError returns and
\* downloadBook goes on to downloadFile(response, filePath)
UnlinkOk(t) ==
  /\ mainPc = "downloadBundles"
  /\ bookPc[t] = "unlinking"
  /\ fs[downloads[t].filePath] # None
  /\ fs' = [fs EXCEPT ![downloads[t].filePath] = Partial]
  /\ bookPc' = [bookPc EXCEPT ![t] = "writing"]
  /\ UNCHANGED <<mainPc, exitCode, report, orderState, downloadLimit,
                 downloads, resp, error, requests, downloadErrors, fs0, run,
                 prev>>
  /\ UNCHANGED <<startVars, dataVars>>

\* fs.unlink of a missing file rejects with ENOENT, caught at line 452
UnlinkENOENT(t) ==
  /\ mainPc = "downloadBundles"
  /\ bookPc[t] = "unlinking"
  /\ fs[downloads[t].filePath] = None
  /\ Catch(t, "ENOENT")
  /\ UNCHANGED <<report, orderState, downloadLimit, downloads, resp, requests,
                 fs, fs0, run, prev>>
  /\ UNCHANGED <<startVars, dataVars>>

\* the mutant of downloadFile: the stream is resolved before it is flushed
downloadFile_truncated(t) == Partial

\* what downloadFile has written when the file stream finishes: response.body
downloadFile(t) ==
  IF resp[t] = OkStatus THEN downloads[t].body ELSE ErrorBody

\* fileStream "finish": downloadFile resolves, downloadBook returns undefined
Finish(t) ==
  /\ mainPc = "downloadBundles"
  /\ bookPc[t] = "writing"
  /\ fs' = [fs EXCEPT ![downloads[t].filePath] = downloadFile(t)]
  /\ bookPc' = [bookPc EXCEPT ![t] = "downloaded"]
  /\ UNCHANGED <<mainPc, exitCode, report, orderState, downloadLimit,
                 downloads, resp, error, requests, downloadErrors, fs0, run,
                 prev>>
  /\ UNCHANGED <<startVars, dataVars>>

\* fileStream / nodeStream "error": downloadFile rejects, caught at line 452
StreamError(t) ==
  /\ mainPc = "downloadBundles"
  /\ bookPc[t] = "writing"
  /\ Catch(t, "stream")
  /\ UNCHANGED <<report, orderState, downloadLimit, downloads, resp, requests,
                 fs, fs0, run, prev>>
  /\ UNCHANGED <<startVars, dataVars>>

\* ------------------------------------------------------- end of main()
\* the mutant of endOfRun for C15: the test is >= 0
endOfRun_neverSuccess(errors) ==
  IF Len(errors) >= 0
    THEN [kind |-> "errors", items |-> errors]
    ELSE [kind |-> "success", items |-> <<>>]

\* the mutant of endOfRun for C20: the errors are not looked at
endOfRun_alwaysSuccess(errors) == [kind |-> "success", items |-> <<>>]

\* if (downloadErrors.length > 0) console.warn(...) else console.log(
\* "Program completed successfully.")
endOfRun(errors) ==
  IF Len(errors) > 0
    THEN [kind |-> "errors", items |-> errors]
    ELSE [kind |-> "success", items |-> <<>>]

\* async.each resolves once every task has settled without an error; main
\* prints the download errors or the success message.
Report ==
  /\ mainPc = "downloadBundles"
  /\ \A t \in Tasks : bookPc[t] \in {"skipped", "downloaded"}
  /\ report' = endOfRun(downloadErrors)
  /\ mainPc' = "done"
  /\ exitCode' = "0"
  /\ UNCHANGED <<orderState, downloadLimit, downloads, bookPc, resp, error,
                 requests, downloadErrors, fs, fs0, run, prev>>
  /\ UNCHANGED <<startVars, dataVars>>

Next ==
  \/ \E k \in Orders : OrderSchedule(k)
  \/ \E k \in Orders : OrderResponseOk(k)
  \/ \E k \in Orders : OrderResponseNotOk(k)
  \/ DownloadBundles
  \/ \E t \in Tasks : Schedule(t)
  \/ \E t \in Tasks : SkipCheck(t)
  \/ \E t \in Tasks : ResponseOk(t)
  \/ \E t \in Tasks : \E status \in NonOkStatuses : ResponseNotOk(t, status)
  \/ \E t \in Tasks : FetchRejected(t)
  \/ \E t \in Tasks : UnlinkOk(t)
  \/ \E t \in Tasks : UnlinkENOENT(t)
  \/ \E t \in Tasks : Finish(t)
  \/ \E t \in Tasks : StreamError(t)
  \/ Report

Spec == Init /\ [][Next]_vars

\* the scheduling of the event loop: a step that can be taken is taken
FairSpec == Spec /\ WF_vars(Next)

\* -------------------------------------------- downloadBook, called twice
\* One task, any advertised hashes, any file at its destination; the program
\* is run a second time over the files the first run left.
InitBook ==
  /\ mainPc = "downloadBundles"
  /\ orderState = [k \in Orders |-> "done"]
  /\ downloadLimit = 1
  /\ downloads \in BookDownloads
  /\ bookPc = [t \in 1..1 |-> "queued"]
  /\ resp = [t \in 1..1 |-> 0]
  /\ error = [t \in 1..1 |-> None]
  /\ requests = [t \in 1..1 |-> 0]
  /\ prev = [t \in 1..1 |-> <<None, 0>>]
  /\ fs \in [PathIds -> FileStates]
  /\ InitRun

\* the program is started again with the same task list
Rerun ==
  /\ mainPc \in {"done", "exited"}
  /\ run < MaxRuns
  /\ run' = run + 1
  /\ prev' = [t \in Tasks |-> <<bookPc[t], resp[t]>>]
  /\ mainPc' = "downloadBundles"
  /\ exitCode' = None
  /\ report' = NoReport
  /\ downloadErrors' = <<>>
  /\ bookPc' = [t \in Tasks |-> "queued"]
  /\ resp' = [t \in Tasks |-> 0]
  /\ error' = [t \in Tasks |-> None]
  /\ requests' = [t \in Tasks |-> 0]
  /\ fs0' = fs
  /\ UNCHANGED <<orderState, downloadLimit, downloads, fs>>
  /\ UNCHANGED <<startVars, dataVars>>

NextBook ==
  \/ \E t \in Tasks : Schedule(t)
  \/ \E t \in Tasks : SkipCheck(t)
  \/ \E t \in Tasks : ResponseOk(t)
  \/ \E t \in Tasks : \E status \in NonOkStatuses : ResponseNotOk(t, status)
  \/ \E t \in Tasks : FetchRejected(t)
  \/ \E t \in Tasks : UnlinkOk(t)
  \/ \E t \in Tasks : UnlinkENOENT(t)
  \/ \E t \in Tasks : Finish(t)
  \/ \E t \in Tasks : StreamError(t)
  \/ Report
  \/ Rerun

SpecBook == InitBook /\ [][NextBook]_vars

\* =================================================================== claims
NotOkTasks == {t \in Tasks : resp[t] \in NonOkStatuses}
ErrorsOf(t) ==
  {i \in DOMAIN downloadErrors : downloadErrors[i].webUrl = downloads[t].url}

\* C1: in a batch where exactly one task's asset request returned a
\* non-success status (and nothing else failed), the run is not aborted and
\* every other task ends as skipped or downloaded.
C1_BatchRunsToCompletion ==
  (/\ Cardinality(NotOkTasks) = 1
   /\ \A t \in Tasks : error[t] \notin {"fetch", "stream"})
  => /\ mainPc # "exited"
     /\ (mainPc = "done" =>
           \A t \in Tasks : bookPc[t] \in {"skipped", "downloaded"})

\* C2: once downloadBook has handled a task whose asset request returned a
\* non-success status, no file exists at the task's destination path, and the
\* error response body is never written there.
C2_NoFileAfterNonSuccess ==
  \A t \in Tasks :
    resp[t] \in NonOkStatuses =>
      /\ fs[downloads[t].filePath] # ErrorBody
      /\ (bookPc[t] \in {"downloaded", "rejected"} =>
            fs[downloads[t].filePath] = None)

\* C3: when the body stream of a successful response fails, the partial
\* destination file is removed and a DownloadError of the task is recorded.
C3_StreamFailureCleanedUp ==
  \A t \in Tasks :
    (error[t] = "stream" /\ resp[t] = OkStatus) =>
      /\ fs[downloads[t].filePath] = None
      /\ ErrorsOf(t) # {}

\* C4: a task whose asset request returned a non-success status has exactly
\* one DownloadError in the collection, with the task's URL and destination
\* path and the status code and text of that response.
C4_ExactlyOneDownloadError ==
  \A t \in Tasks :
    resp[t] \in NonOkStatuses =>
      /\ Cardinality(ErrorsOf(t)) = 1
      /\ \A i \in ErrorsOf(t) :
           downloadErrors[i] =
             [webUrl |-> downloads[t].url,
              filePath |-> downloads[t].filePath,
              status |-> resp[t],
              statusText |-> IF resp[t] = 404 THEN "Not Found"
                                              ELSE "Internal Server Error"]

\* C4 witness: the failing task went through the catch block (its unlink
\* threw) and one error is recorded
W_C4 ==
  \E t \in Tasks :
    /\ resp[t] = 404
    /\ bookPc[t] = "rejected"
    /\ error[t] = "ENOENT"
    /\ Len(downloadErrors) = 1

\* C5: neither pool ever has more operations in flight than its bound: 5 for
\* the detail requests, downloadLimit for the downloads.
C5_ConcurrencyBound ==
  /\ Cardinality(RunningOrders) <= 5
  /\ Cardinality(RunningBooks) <= downloadLimit

\* C5 witness: more downloads submitted than the bound, the pool is full and
\* a task is waiting
W_C5 ==
  /\ Len(downloads) > downloadLimit
  /\ Cardinality(RunningBooks) = downloadLimit
  /\ \E t \in Tasks : bookPc[t] = "queued"

\* the advertised hash downloadBook verifies is the hash of the remote body
AdvertisedMatchesBody(download) ==
  IF download.sha1 # NoHash
    THEN download.sha1 = createHash("sha1", download.body)
    ELSE download.md5 = createHash("md5", download.body)

\* C6 as stated: after a first attempt that ended skipped or downloaded a
\* success response, a second attempt of the same task reports skipped and
\* issues no asset request.
C6_SecondAttemptSkipped ==
  \A t \in Tasks :
    (/\ run >= 2
     /\ prev[t] \in {<<"skipped", 0>>, <<"downloaded", OkStatus>>})
    => /\ requests[t] = 0
       /\ bookPc[t] \in {"queued", "started", "skipped"}

\* C6 amended: when the first attempt ended skipped, or downloaded a success
\* response whose body has the advertised hash, the second attempt reports
\* skipped and issues no asset request.
C6_Idempotent ==
  \A t \in Tasks :
    (/\ run >= 2
     /\ \/ prev[t] = <<"skipped", 0>>
        \/ prev[t] = <<"downloaded", OkStatus>> /\ AdvertisedMatchesBody(downloads[t]))
    => /\ requests[t] = 0
       /\ bookPc[t] \in {"queued", "started", "skipped"}

\* C6 witness: the first attempt downloaded the file, the second skipped it
W_C6 ==
  \E t \in Tasks :
    /\ run = 2
    /\ prev[t] = <<"downloaded", OkStatus>>
    /\ bookPc[t] = "skipped"
    /\ requests[t] = 0

\* the file at the destination when the attempt began has the advertised hash
\* (sha1 when advertised, otherwise md5)
ExistingFileMatches(download) ==
  /\ fs0[download.filePath] # None
  /\ IF download.sha1 # NoHash
       THEN createHash("sha1", fs0[download.filePath]) = download.sha1
       ELSE createHash("md5", fs0[download.filePath]) = download.md5

\* C7: a task is skipped, with no asset request, iff the destination file
\* exists with the advertised hash; otherwise exactly one request is issued
\* and a successful transfer leaves the remote body at the destination.
C7_SkipCheck ==
  \A t \in Tasks :
    bookPc[t] \notin {"queued", "started"} =>
      /\ (bookPc[t] = "skipped") <=> ExistingFileMatches(downloads[t])
      /\ requests[t] = (IF ExistingFileMatches(downloads[t]) THEN 0 ELSE 1)
      /\ (bookPc[t] = "downloaded" /\ resp[t] = OkStatus =>
            fs[downloads[t].filePath] = downloads[t].body)

\* C7 witness: a file with a mismatching hash was overwritten by the body
W_C7 ==
  \E t \in Tasks :
    /\ fs0[downloads[t].filePath] # None
    /\ fs0[downloads[t].filePath] # downloads[t].body
    /\ ~ExistingFileMatches(downloads[t])
    /\ bookPc[t] = "downloaded"
    /\ resp[t] = OkStatus
    /\ requests[t] = 1
    /\ fs[downloads[t].filePath] = downloads[t].body

\* C8: a failure of one operation never cancels a sibling already admitted:
\* the process never ends while an admitted operation is still in flight.
C8_NoSiblingCancelled ==
  mainPc = "exited" => (RunningOrders = {} /\ RunningBooks = {})

\* C9: once a DownloadError is recorded the run reaches its end-of-run report,
\* which lists the recorded errors; a run that ends with none recorded reports
\* success.
C9_ErrorsItemized ==
  /\ (Len(downloadErrors) > 0) ~>
       (report.kind = "errors" /\ report.items = downloadErrors)
  /\ [](mainPc = "done" /\ Len(downloadErrors) = 0 => report.kind = "success")

\* C10: when a detail request of fetchOrders returned a non-success response
\* the run has ended with a fatal error: no task list was built, no asset
\* request was issued, no file was written and nothing was reported.
C10_DetailFailureIsFatal ==
  (\E k \in Orders : orderState[k] = "failed") =>
    /\ mainPc = "exited"
    /\ exitCode = "1"
    /\ downloads = <<>>
    /\ requests = <<>>
    /\ fs = fs0
    /\ report = NoReport

\* C10 witness: a detail request failed after another had succeeded
W_C10 ==
  /\ \E k \in Orders : orderState[k] = "failed"
  /\ \E k \in Orders : orderState[k] = "done"
  /\ mainPc = "exited"

C15_EmptyRunSucceeds ==
  /\ []((/\ mainPc # "fetchOrders"
         /\ downloads = <<>>
         /\ \A k \in Orders : orderState[k] = "done") =>
          /\ mainPc # "exited"
          /\ downloadErrors = <<>>
          /\ requests = <<>>
          /\ fs = fs0
          /\ (mainPc = "done" => report.kind = "success" /\ exitCode = "0"))
  /\ (mainPc = "downloadBundles" /\ downloads = <<>>) ~>
       (mainPc = "done" /\ report.kind = "success")

\* C15 witness: the run with an empty task list has ended with the success
\* report
W_C15 ==
  /\ downloads = <<>>
  /\ mainPc = "done"
  /\ report.kind = "success"
  /\ exitCode = "0"

\* C18: no two tasks write to the same destination path at the same time.
C18_ExclusiveDestination ==
  \A t1 \in Tasks : \A t2 \in Tasks :
    (t1 # t2 /\ bookPc[t1] = "writing" /\ bookPc[t2] = "writing") =>
      downloads[t1].filePath # downloads[t2].filePath

\* C20: the success report is printed only when every task ended skipped or
\* downloaded and no transfer failed (no non-success response, no rejected
\* request, no stream error).
C20_SuccessOnlyIfAllSucceeded ==
  report.kind = "success" =>
    \A t \in Tasks :
      /\ bookPc[t] \in {"skipped", "downloaded"}
      /\ resp[t] \notin NonOkStatuses
      /\ error[t] = None

\* C20 witness: the success report after a download and a skip
W_C20 ==
  /\ report.kind = "success"
  /\ \E t \in Tasks : bookPc[t] = "downloaded" /\ resp[t] = OkStatus
  /\ \E t \in Tasks : bookPc[t] = "skipped"

\* the format the run resolves from the command line and the configuration
ResolvedFormat ==
  IF cli.format # None THEN cli.format
  ELSE IF config.format # None THEN config.format
  ELSE "epub"

FormatIsValid(f) ==
  f \in {"epub", "mobi", "pdf", "pdf_hd", "prc", "cbz", "zip", "txt", "csv",
         "iso", "all"}

\* C16: when the resolved format is not a supported format or "all", the run
\* ends with an error before orchestration: with the "Invalid format" usage
\* error when the configuration file was read (with the fatal error of
\* loadConfig when there is none), and no session validation, catalog
\* listing, detail request or asset request is issued.
C16_InvalidFormatStopsRun ==
  ~FormatIsValid(ResolvedFormat) =>
    /\ issued = {}
    /\ \A k \in Orders : orderState[k] = "queued"
    /\ downloads = <<>>
    /\ mainPc \in {"loadConfig", "parse", "help", "exited"}
    /\ (mainPc = "exited" => ~config.exists)
    /\ (mainPc = "help" => config.exists)

\* C16 witness: the format of the file was accepted, the one of the command
\* line was not, and the run ended with the usage error
W_C16 ==
  /\ FormatIsValid(config.format)
  /\ cli.format = "bogus"
  /\ format = "bogus"
  /\ mainPc = "help"
  /\ issued = {}

\* C17: every fatal condition (an invalid format, a non-success response of
\* the listing, a credential failure) ends the run with a non-zero exit code.
C17_FatalExitsNonZero ==
  mainPc \in {"help", "exited"} => exitCode = "1"


\* ------------------------------------------------------------------ C12..C14, C19
\* the normalization table, label by label
TableFormat(label) ==
  CASE label = ".CBZ" -> "cbz"
    [] label = "pdf (hq)" -> "pdf_hd"
    [] label = "PDF (HD)" -> "pdf_hd"
    [] label = "Download" -> "pdf"
    [] label = "EPUB" -> "epub"
    [] label = "PDF" -> "pdf"
    [] label = "MP3" -> "mp3"

\* the positions <<subproduct, download option, variant>> of an order
Positions(order) ==
  UNION { UNION { { <<i, j, k>> :
                     k \in DOMAIN order.subproducts[i].downloads[j].download_struct }
                  : j \in DOMAIN order.subproducts[i].downloads }
          : i \in DOMAIN order.subproducts }
OptionAt(order, q) == order.subproducts[q[1]].downloads[q[2]]
VariantAt(order, q) == OptionAt(order, q).download_struct[q[3]]

\* the ebook variants with label and URL
Eligible(order) ==
  { q \in Positions(order) :
      /\ OptionAt(order, q).platform = "ebook"
      /\ VariantAt(order, q).name # None
      /\ VariantAt(order, q).url # None }

\* the eligible variants the selector admits
Qualifying(order) ==
  { q \in Eligible(order) :
      format = "all" \/ TableFormat(VariantAt(order, q).name) = format }

TaskAt(order, q) ==
  [bundle |-> order.product.human_name, download |-> VariantAt(order, q),
   name |-> order.subproducts[q[1]].human_name]

EbookOption(order) ==
  \E i \in DOMAIN order.subproducts :
    \E j \in DOMAIN order.subproducts[i].downloads :
      order.subproducts[i].downloads[j].platform = "ebook"

Filtered == mainPc \in {"displayOrders", "buildDownloads", "filePaths", "resolved"}
Built == mainPc \in {"filePaths", "resolved"}

\* C12: fetchOrders retains an order iff one download option of one of its
\* subproducts has platform "ebook", whatever the format and the variants
C12_RetainedIffEbook ==
  Filtered =>
    /\ \A n \in DOMAIN detailedOrders :
         (\E i \in DOMAIN filteredOrders : filteredOrders[i] = detailedOrders[n])
           <=> EbookOption(detailedOrders[n])
    /\ \A i \in DOMAIN filteredOrders :
         \E n \in DOMAIN detailedOrders : filteredOrders[i] = detailedOrders[n]
    /\ \A i, j \in DOMAIN filteredOrders :
         i < j => filteredOrders[i].product.human_name < filteredOrders[j].product.human_name

\* an order without any ebook variant is retained for its ebook option while an
\* order with variants under another platform is dropped
W_C12 ==
  /\ Filtered
  /\ Len(filteredOrders) = 1
  /\ \A q \in Positions(filteredOrders[1]) :
       OptionAt(filteredOrders[1], q).platform # "ebook"
  /\ \E n \in DOMAIN detailedOrders :
       /\ ~EbookOption(detailedOrders[n])
       /\ \E q \in Positions(detailedOrders[n]) :
            VariantAt(detailedOrders[n], q).name = "EPUB"
  /\ format = "epub"

EpubAndPdf(order) ==
  /\ Len(order.subproducts) = 1
  /\ Len(order.subproducts[1].downloads) = 1
  /\ order.subproducts[1].downloads[1] =
       DownloadOption("ebook", <<Variant("EPUB", "url"), Variant("PDF", "url")>>)

\* C13: the tasks built by downloadBundles are exactly the variants of an
\* ebook download option that have a label and a URL and that the selector
\* admits; one ebook subproduct in epub and pdf gives 1 task for "epub" and
\* 2 tasks for "all"
C13_TasksAreQualifyingVariants ==
  Built =>
    /\ Len(downloadList) =
         Cardinality({ <<b, q>> \in (DOMAIN bundles) \X (UNION {Positions(bundles[b]) : b \in DOMAIN bundles}) :
                         q \in Qualifying(bundles[b]) })
    /\ \A i \in DOMAIN downloadList :
         \E b \in DOMAIN bundles : \E q \in Qualifying(bundles[b]) :
           downloadList[i] = TaskAt(bundles[b], q)
    /\ \A b \in DOMAIN bundles : \A q \in Qualifying(bundles[b]) :
         \E i \in DOMAIN downloadList : downloadList[i] = TaskAt(bundles[b], q)
    /\ (Len(bundles) = 1 /\ EpubAndPdf(bundles[1])) =>
         /\ format = "epub" => Len(downloadList) = 1
         /\ format = "all" => Len(downloadList) = 2

\* the catalog of the scenario: one order in epub and pdf, format "all"
W_C13 ==
  /\ Built
  /\ Len(bundles) = 1
  /\ EpubAndPdf(bundles[1])
  /\ format = "all"
  /\ Len(downloadList) = 2
  /\ Len(detailedOrders) > Len(filteredOrders)

\* the extension of a normalized format
ExtensionOf(f) == IF f = "pdf_hd" THEN <<" (hd).pdf">> ELSE <<".", f>>

\* C14: normalizeFormat follows the table whatever the case of the label,
\* and gives one label one result
C14_NormalizeMatchesTable ==
  mainPc = "resolved" =>
    /\ Len(filePaths) = Len(downloadList)
    /\ \A i \in DOMAIN filePaths :
         filePaths[i].extension =
           ExtensionOf(TableFormat(downloadList[i].download.name))
    /\ \A i, j \in DOMAIN filePaths :
         downloadList[i].download.name = downloadList[j].download.name
           => filePaths[i].extension = filePaths[j].extension

\* labels in capitals were normalized
W_C14 ==
  /\ mainPc = "resolved"
  /\ \E i, j \in DOMAIN filePaths :
       /\ downloadList[i].download.name = "PDF (HD)"
       /\ filePaths[i].extension = <<" (hd).pdf">>
       /\ downloadList[j].download.name = ".CBZ"
       /\ filePaths[j].extension = <<".", "cbz">>

Range(list) == {list[i] : i \in DOMAIN list}
BundleNamed(n) == CHOOSE b \in Range(bundles) : b.product.human_name = n
SupportedSet == Range(SUPPORTED_FORMATS)

\* the diagnostics are those of the bundles without an admitted variant, each
\* lists the formats avail(bundle) sorted and once, and the bundles with an
\* admitted variant have their tasks
DiagnosticsList(avail(_)) ==
  /\ \A b \in DOMAIN bundles :
       (Qualifying(bundles[b]) = {})
         <=> \E d \in DOMAIN diagnostics :
               diagnostics[d].bundle = bundles[b].product.human_name
  /\ \A d \in DOMAIN diagnostics :
       /\ Range(diagnostics[d].formats) = avail(BundleNamed(diagnostics[d].bundle))
       /\ Len(diagnostics[d].formats) =
            Cardinality(avail(BundleNamed(diagnostics[d].bundle)))
       /\ \A i, j \in DOMAIN diagnostics[d].formats :
            i < j => rank(diagnostics[d].formats[i]) < rank(diagnostics[d].formats[j])
  /\ \A b \in DOMAIN bundles :
       Cardinality({i \in DOMAIN downloadList :
                      downloadList[i].bundle = bundles[b].product.human_name})
         = Cardinality(Qualifying(bundles[b]))

AllFormats(bundle) ==
  {TableFormat(VariantAt(bundle, q).name) : q \in Eligible(bundle)}
SupportedFormats(bundle) == AllFormats(bundle) \cap SupportedSet

\* C19 as stated: the diagnostic of a bundle without a matching variant lists
\* the sorted, de-duplicated normalized formats of all its eligible ebook
\* variants, and the remaining bundles are still processed
C19_DiagnosticListsAllFormats == Built => DiagnosticsList(AllFormats)

\* C19 amended: the diagnostic lists the sorted, de-duplicated normalized
\* formats of the bundle's eligible ebook variants that are among
\* SUPPORTED_FORMATS, and the remaining bundles are still processed
C19_DiagnosticListsSupportedFormats == Built => DiagnosticsList(SupportedFormats)

\* a bundle with an eligible variant outside SUPPORTED_FORMATS matches nothing
\* and the bundle after it has its task
W_C19 ==
  /\ Built
  /\ Len(bundles) = 2
  /\ Len(diagnostics) = 1
  /\ diagnostics[1].bundle = bundles[1].product.human_name
  /\ diagnostics[1].formats = <<"pdf">>
  /\ "mp3" \in AllFormats(bundles[1])
  /\ \E i \in DOMAIN downloadList :
       downloadList[i].bundle = bundles[2].product.human_name


\* ------------------------------------------------------------------ C21
NoSessionNoToken ==
  /\ noStoredSession
  /\ ~truthy(cli.authToken)
  /\ ~truthy(config.authToken)

====
